---- MODULE Spec2Model ----
(***************************************************************************)
(* PostgresHelper (src/PostgresDatabaseHelper.py): one psycopg2 connection *)
(* and one cursor behind query, insert, update, delete, bulk insert,       *)
(* commit, rollback and close.                                             *)
(*                                                                         *)
(* Three specifications:                                                   *)
(*   SpecNew  the constructor __init__, called with every combination of   *)
(*            arguments and connect outcomes;                              *)
(*   Spec     the methods of an instance whose attributes hold what the    *)
(*            try body of __init__ (lines 69-80) assigns after a           *)
(*            successful connect.  Line 66 keeps __init__ itself from      *)
(*            reaching that body (SpecNew shows it), so Spec describes     *)
(*            the methods on an instance whose attributes were set to      *)
(*            those values;                                                *)
(*   SpecWith the same instance used as a context manager: __enter__, the  *)
(*            operations of the body, __exit__.                            *)
(*                                                                         *)
(* Every operation is one step, from a state in which the caller is ready  *)
(* (op = "-") to a state that records what the operation did (op, arg,     *)
(* trace, outcome, ret); DoReturn is the caller taking that result.        *)
(*                                                                         *)
(* The driver (psycopg2) is modelled by what its calls do to the session:  *)
(* a committed table, the statements pending in the open transaction, the  *)
(* autocommit flag, and the state of the connection and of the cursor.     *)
(***************************************************************************)
EXTENDS Integers, Sequences, FiniteSets, TLC

VARIABLES
    self,       \* the helper's attributes: connection, cursor, logger, use_dict_cursor
    drv,        \* the driver's session: conn, cur, autocommit, committed, pending
    op,         \* the operation the last step ran
    arg,        \* its arguments and the fault the environment injected
    trace,      \* what that operation did, in order: driver calls, log records, the raise
    outcome,    \* how it ended: "ok" or the kind of exception the caller sees
    ret,        \* what it returned
    emChunks,   \* the chunks bulk_insert handed to executemany, in order
    released,   \* how often the cursor and the connection went from open to closed
    flushed,    \* the number of pending statements the last commit()/rollback() settled
    ctx,        \* the with statement: "none", "in" (inside the body), "exited"
    blockExc,   \* the exception the with statement ends with ("none": ended normally)
    bodyExc,    \* the exception the body of the with statement raised ("none": none)
    exitCloses, \* the number of close() calls made by __exit__
    closeCalls, \* the number of close() calls made so far
    attempts    \* the number of constructor calls so far (SpecNew)

vars == <<self, drv, op, arg, trace, outcome, ret, emChunks, released, flushed,
          ctx, blockExc, bodyExc, exitCloses, closeCalls, attempts>>

----------------------------------------------------------------------------
(* Bounds of the model *)

\* rows a table may hold
MaxRows == 3
\* statements pending in one transaction
MaxPending == 2
\* rows handed to one bulk_insert
MaxData == 2
\* constructor calls (SpecNew)
MaxAttempts == 4
\* close() calls made by the caller
MaxCloses == 3

Values == {1, 2}

----------------------------------------------------------------------------
(* Python strings, as sequences of characters *)

Whitespace == {" ", "\n"}

\* str.lower(), on the characters the model uses
LowerChar(c) ==
    CASE c = "S" -> "s" [] c = "E" -> "e" [] c = "L" -> "l"
      [] c = "C" -> "c" [] c = "T" -> "t" [] OTHER -> c

Lower(s) == [i \in 1..Len(s) |-> LowerChar(s[i])]

RECURSIVE LStrip(_)
LStrip(s) == IF s # <<>> /\ Head(s) \in Whitespace THEN LStrip(Tail(s)) ELSE s

RECURSIVE RStrip(_)
RStrip(s) ==
    IF s # <<>> /\ s[Len(s)] \in Whitespace THEN RStrip(SubSeq(s, 1, Len(s) - 1)) ELSE s

\* str.strip(): leading and trailing whitespace removed
Strip(s) == RStrip(LStrip(s))

\* str.startswith(p)
StartsWith(s, p) == Len(s) >= Len(p) /\ SubSeq(s, 1, Len(p)) = p

KwSelect == <<"s", "e", "l", "e", "c", "t">>

IsSelectNoStrip(query) == StartsWith(Lower(query), KwSelect)

\* line 125: query.strip().lower().startswith("select")
IsSelect(query) == StartsWith(Lower(Strip(query)), KwSelect)

\* the statement texts the model passes to select_execute_query
Queries ==
    { KwSelect,
      <<"S", "E", "L", "E", "C", "T">>,
      <<"\n", " ", "S", "e", "l", "E", "c", "t", " ", "x", " ">>,
      <<" ", "s", "e", "l", "e", "c", "t", "x">>,
      <<"s", "e", "l", "e", "c">>,
      <<" ", "x", "s", "e", "l", "e", "c", "t">>,
      <<"s", " ", "e", "l", "e", "c", "t">>,
      <<"w", "i", "t", "h", " ", "s", "e", "l", "e", "c", "t">>,
      <<" ", "\n">>,
      <<>> }

----------------------------------------------------------------------------
(* The table and the statements that change it *)

NoMut == [k |-> "none", v |-> 0]
Ins(v) == [k |-> "ins", v |-> v]

RECURSIVE Without(_, _)
Without(t, v) ==
    IF t = <<>> THEN <<>>
    ELSE IF Head(t) = v THEN Without(Tail(t), v) ELSE <<Head(t)>> \o Without(Tail(t), v)

\* the effect of one statement on a table
Apply(m, t) ==
    CASE m.k = "ins" -> Append(t, m.v)
      [] m.k = "upd" -> [i \in 1..Len(t) |-> m.v]
      [] m.k = "del" -> Without(t, m.v)
      [] OTHER -> t

RECURSIVE ApplyAll(_, _)
ApplyAll(t, ms) == IF ms = <<>> THEN t ELSE ApplyAll(Apply(Head(ms), t), Tail(ms))

\* what the session sees: the committed rows and its own pending statements
Working(d) == ApplyAll(d.committed, d.pending)

\* rows a statement adds
Grows(m) == IF m.k = "ins" THEN 1 ELSE 0

----------------------------------------------------------------------------
(* The driver: what each psycopg2 call the helper makes does to the session. *)
(* Every call returns the session it leaves and whether it raised.           *)
(* fault is the environment's choice for the call: "none", "stmt" (the       *)
(* server rejects the statement; the connection stays usable) or "conn"      *)
(* (the connection is lost: the server drops the open transaction and every  *)
(* later call on the connection raises).                                     *)

QEE == "PostgresDbQueryExecutionError"
CE == "PostgresDbConnectionError"
RaiseQEE == "raise_PostgresDbQueryExecutionError"
RaiseCE == "raise_PostgresDbConnectionError"

Lost(d) == [d EXCEPT !.conn = "broken", !.pending = <<>>]

\* cursor.execute(query, params), for a statement with effect m.  With the
\* connection's autocommit flag set, the statement takes effect at once.
DrvExecute(d, m, fault) ==
    IF d.cur # "open" \/ d.conn # "open" THEN [drv |-> d, exc |-> TRUE]
    ELSE IF fault = "conn" THEN [drv |-> Lost(d), exc |-> TRUE]
    ELSE IF fault = "stmt" THEN [drv |-> d, exc |-> TRUE]
    ELSE IF m.k = "none" THEN [drv |-> d, exc |-> FALSE]
    ELSE IF d.autocommit
         THEN [drv |-> [d EXCEPT !.committed = Apply(m, d.committed)], exc |-> FALSE]
         ELSE [drv |-> [d EXCEPT !.pending = Append(d.pending, m)], exc |-> FALSE]

\* cursor.executemany(query, chunk): the statement once per row, in order;
\* failAt is the row of the chunk whose execution fails (0: none)
RECURSIVE DrvExecuteMany(_, _, _, _)
DrvExecuteMany(d, chunk, failAt, fault) ==
    IF d.cur # "open" \/ d.conn # "open" THEN [drv |-> d, exc |-> TRUE]
    ELSE IF chunk = <<>> THEN [drv |-> d, exc |-> FALSE]
    ELSE LET r == DrvExecute(d, Ins(Head(chunk)), IF failAt = 1 THEN fault ELSE "none")
         IN  IF r.exc THEN r
             ELSE DrvExecuteMany(r.drv, Tail(chunk), failAt - 1, fault)

\* connection.commit()
DrvCommit(d, fault) ==
    IF d.conn # "open" THEN [drv |-> d, exc |-> TRUE]
    ELSE IF d.autocommit THEN [drv |-> d, exc |-> FALSE]
    ELSE IF fault = "conn" THEN [drv |-> Lost(d), exc |-> TRUE]
    ELSE IF fault = "stmt" THEN [drv |-> [d EXCEPT !.pending = <<>>], exc |-> TRUE]
    ELSE [drv |-> [d EXCEPT !.committed = Working(d), !.pending = <<>>], exc |-> FALSE]

\* connection.rollback()
DrvRollback(d, fault) ==
    IF d.conn # "open" THEN [drv |-> d, exc |-> TRUE]
    ELSE IF d.autocommit THEN [drv |-> d, exc |-> FALSE]
    ELSE IF fault = "conn" THEN [drv |-> Lost(d), exc |-> TRUE]
    ELSE [drv |-> [d EXCEPT !.pending = <<>>], exc |-> FALSE]

\* cursor.close(): closing a closed cursor does nothing and does not raise
DrvCursorClose(d) ==
    [drv |-> [d EXCEPT !.cur = "closed"], exc |-> FALSE,
     released |-> IF d.cur = "open" THEN 1 ELSE 0]

\* connection.close(): the server drops the open transaction; closing a closed
\* connection does nothing and does not raise
DrvConnectionClose(d) ==
    [drv |-> [d EXCEPT !.conn = "closed", !.pending = <<>>], exc |-> FALSE,
     released |-> IF d.conn # "closed" THEN 1 ELSE 0]

----------------------------------------------------------------------------
(* Return values *)

RetNone == [kind |-> "None", shape |-> "-", rows |-> <<>>, n |-> 0]
RetRows(dict, t) ==
    [kind |-> "rows", shape |-> IF dict THEN "dict" ELSE "tuple", rows |-> t, n |-> 0]
RetCount(n) == [kind |-> "count", shape |-> "-", rows |-> <<>>, n |-> n]

\* the result of a handler
Result(d, tr, out, rv) ==
    [drv |-> d, trace |-> tr, outcome |-> out, ret |-> rv, chunks |-> <<>>,
     relCursor |-> 0, relConnection |-> 0]

----------------------------------------------------------------------------
(* The handlers *)

\* the except clause of a statement operation (lines 128-131, 150-153, 169-172,
\* 192-195, 211-214, 230-233): log, roll back, raise.  A rollback() that raises
\* leaves the handler before its raise statement.
ErrorPath(d, tr) ==
    LET rb == DrvRollback(d, "none")
    IN  IF rb.exc
        THEN Result(rb.drv, tr \o <<"log_error", "rollback", "raise_DriverError">>,
                    "DriverError", RetNone)
        ELSE Result(rb.drv, tr \o <<"log_error", "rollback", RaiseQEE>>,
                    QEE, RetNone)

\* select_execute_query (lines 123-131)
SelectExecuteQuery(s, d, query, m, fault, fetch) ==
    LET ex == DrvExecute(d, m, fault)
    IN  IF ex.exc THEN ErrorPath(ex.drv, <<"execute">>)
        ELSE IF IsSelect(query)
        THEN IF fetch = "noresult"
             THEN ErrorPath(ex.drv, <<"execute", "fetchall">>)
             ELSE Result(ex.drv, <<"execute", "fetchall">>, "ok",
                         RetRows(s.use_dict_cursor, Working(ex.drv)))
        ELSE Result(ex.drv, <<"execute">>, "ok", RetNone)

\* select_get_count_query (lines 146-153): fetchone() gives a row with a
\* count ("row"), a row without a field named count ("nokey"), no row
\* ("none": None, which cannot be indexed) or raises ("noresult")
SelectGetCountQuery(s, d, m, fault, fetch) ==
    LET ex == DrvExecute(d, m, fault)
    IN  IF ex.exc THEN ErrorPath(ex.drv, <<"execute">>)
        ELSE IF \/ fetch \in {"noresult", "none"}
                \/ fetch = "nokey" /\ s.use_dict_cursor
        THEN ErrorPath(ex.drv, <<"execute", "fetchone">>)
        ELSE Result(ex.drv, <<"execute", "fetchone">>, "ok",
                    RetCount(Len(Working(ex.drv))))

CommitsAlways(d) == TRUE

\* lines 167, 190, 209, 228: if self.connection.autocommit
CommitsAfter(d) == d.autocommit

\* insert, update_execute_query, delete_execute_query (lines 165-172,
\* 207-214, 226-233): the same body
Mutate(d, m, fault) ==
    LET ex == DrvExecute(d, m, fault)
    IN  IF ex.exc THEN ErrorPath(ex.drv, <<"execute">>)
        ELSE IF CommitsAfter(ex.drv)
        THEN LET cm == DrvCommit(ex.drv, "none")
             IN  IF cm.exc THEN ErrorPath(cm.drv, <<"execute", "commit">>)
                 ELSE Result(cm.drv, <<"execute", "commit">>, "ok", RetNone)
        ELSE Result(ex.drv, <<"execute">>, "ok", RetNone)

\* commit (lines 239-243)
Commit(d, fault) ==
    LET cm == DrvCommit(d, fault)
    IN  IF cm.exc THEN Result(cm.drv, <<"commit", "log_error", RaiseQEE>>, QEE, RetNone)
        ELSE Result(cm.drv, <<"commit">>, "ok", RetNone)

\* rollback (lines 249-253)
Rollback(d, fault) ==
    LET rb == DrvRollback(d, fault)
    IN  IF rb.exc THEN Result(rb.drv, <<"rollback", "log_error", RaiseQEE>>, QEE, RetNone)
        ELSE Result(rb.drv, <<"rollback">>, "ok", RetNone)

Min(a, b) == IF a < b THEN a ELSE b
Max(a, b) == IF a > b THEN a ELSE b

\* range(i, stop, step) for step # 0
RECURSIVE PyRange(_, _, _)
PyRange(i, stop, step) ==
    IF (step > 0 /\ i < stop) \/ (step < 0 /\ i > stop)
    THEN <<i>> \o PyRange(i + step, stop, step)
    ELSE <<>>

\* a bound of a slice: negative counts from the end, and it is clamped to the list
PyBound(n, i) == IF i < 0 THEN Max(n + i, 0) ELSE Min(i, n)

PySliceShort(data, i, j) == SubSeq(data, PyBound(Len(data), i) + 1, PyBound(Len(data), j) - 1)

\* data[i:j]
PySlice(data, i, j) == SubSeq(data, PyBound(Len(data), i) + 1, PyBound(Len(data), j))

\* the loop of bulk_insert (lines 187-189) from the chunk starts still to do;
\* failAt is the row of data (1-based) whose execution fails, 0 for none
RECURSIVE BulkLoop(_, _, _, _, _, _, _, _)
BulkLoop(d, data, chunk_size, starts, failAt, fault, tr, chunks) ==
    IF starts = <<>>
    THEN [drv |-> d, exc |-> FALSE, trace |-> tr, chunks |-> chunks]
    ELSE LET i == Head(starts)
             chunk == PySlice(data, i, i + chunk_size)
             em == DrvExecuteMany(d, chunk, failAt - i, fault)
         IN  IF em.exc
             THEN [drv |-> em.drv, exc |-> TRUE, trace |-> Append(tr, "executemany"),
                   chunks |-> Append(chunks, chunk)]
             ELSE BulkLoop(em.drv, data, chunk_size, Tail(starts), failAt, fault,
                           Append(tr, "executemany"), Append(chunks, chunk))

\* bulk_insert (lines 186-195).  range() with step 0 raises ValueError inside
\* the try block.
BulkInsert(d, data, chunk_size, failAt, fault) ==
    IF chunk_size = 0 THEN ErrorPath(d, <<>>)
    ELSE LET lp == BulkLoop(d, data, chunk_size, PyRange(0, Len(data), chunk_size),
                            failAt, fault, <<>>, <<>>)
         IN  IF lp.exc THEN [ErrorPath(lp.drv, lp.trace) EXCEPT !.chunks = lp.chunks]
             ELSE IF CommitsAfter(lp.drv)
             THEN LET cm == DrvCommit(lp.drv, "none")
                  IN  IF cm.exc
                      THEN [ErrorPath(cm.drv, Append(lp.trace, "commit"))
                                EXCEPT !.chunks = lp.chunks]
                      ELSE [Result(cm.drv, Append(lp.trace, "commit"), "ok", RetNone)
                                EXCEPT !.chunks = lp.chunks]
             ELSE [Result(lp.drv, lp.trace, "ok", RetNone) EXCEPT !.chunks = lp.chunks]

CloseError(d, tr, relCur) ==
    [Result(d, tr \o <<"log_error", RaiseCE>>, CE, RetNone) EXCEPT !.relCursor = relCur]

CloseConnectionOnly(s, d) ==
    LET nc == DrvConnectionClose(d)
    IN  [Result(nc.drv, <<"connection_close", "log_info">>, "ok", RetNone)
            EXCEPT !.relConnection = nc.released]

\* close (lines 259-267)
Close(s, d) ==
    LET hasCur == s.cursor # "None"
        cc == IF hasCur THEN DrvCursorClose(d) ELSE [drv |-> d, exc |-> FALSE, released |-> 0]
        t1 == IF hasCur THEN <<"cursor_close">> ELSE <<>>
    IN  IF cc.exc THEN CloseError(cc.drv, t1, 0)
        ELSE IF s.connection # "None"
        THEN LET nc == DrvConnectionClose(cc.drv)
             IN  IF nc.exc THEN CloseError(nc.drv, Append(t1, "connection_close"), cc.released)
                 ELSE [Result(nc.drv, t1 \o <<"connection_close", "log_info">>, "ok", RetNone)
                          EXCEPT !.relCursor = cc.released, !.relConnection = nc.released]
        ELSE [Result(cc.drv, t1, "ok", RetNone) EXCEPT !.relCursor = cc.released]

ExitClosesOnSuccessOnly(e) == e = "none"

\* __exit__ (line 104) calls close() whatever exception the body raised
ExitCloses(e) == TRUE

\* __exit__ returns None: the body's exception is not suppressed
ExitSuppresses(e) == FALSE

\* __exit__ (lines 100-104): the exception the with statement ends with
Exit(s, d, e) ==
    LET r == IF ExitCloses(e) THEN Close(s, d) ELSE Result(d, <<>>, "ok", RetNone)
    IN  [r |-> r,
         calls |-> IF ExitCloses(e) THEN 1 ELSE 0,
         exc |-> IF r.outcome # "ok" THEN r.outcome
                 ELSE IF ExitSuppresses(e) THEN "none" ELSE e]

----------------------------------------------------------------------------
(* The constructor *)

NoSession ==
    [conn |-> "none", cur |-> "none", autocommit |-> FALSE, committed |-> <<>>,
     pending |-> <<>>]

\* lines 64-65
Blank == [connection |-> "None", cursor |-> "None", logger |-> "unset",
          use_dict_cursor |-> "unset"]

\* lines 67-83: the logger, use_dict_cursor and the try block; connect is the
\* outcome of psycopg2.connect and table what the database holds
TryConnect(s, a, connect, table) ==
    LET s1 == [s EXCEPT !.logger = IF a.logger = "None" THEN "default" ELSE a.logger,
                        !.use_dict_cursor = a.use_dict_cursor]
    IN  IF connect = "ok"
        THEN [self |-> [s1 EXCEPT !.connection = "conn", !.cursor = "cur"],
              drv |-> [conn |-> "open", cur |-> "open", autocommit |-> a.autocommit,
                       committed |-> table, pending |-> <<>>],
              trace |-> <<"connect", "log_info">>, outcome |-> "ok"]
        ELSE [self |-> s1, drv |-> NoSession,
              trace |-> <<"connect", "log_error", RaiseCE>>, outcome |-> CE]

\* __init__ (lines 64-83).  Line 66 assigns to an attribute of
\* self.connection, which line 64 has just set to None: AttributeError,
\* outside the try block and before self.logger exists.
New(a, connect, table) ==
    LET s == Blank
    IN  IF s.connection = "None"
        THEN [self |-> s, drv |-> NoSession, trace |-> <<"raise_AttributeError">>,
              outcome |-> "AttributeError"]
        ELSE TryConnect(s, a, connect, table)

CtorArgs == [autocommit : BOOLEAN, use_dict_cursor : BOOLEAN, logger : {"None", "supplied"}]
ConnectOutcomes == {"ok", "unreachable", "bad_credentials", "no_database"}

----------------------------------------------------------------------------
(* The state machine *)

NoArg ==
    [query |-> <<>>, m |-> NoMut, data |-> <<>>, chunk_size |-> 1, failAt |-> 0,
     fault |-> "none", fetch |-> "-",
     ctor |-> [autocommit |-> FALSE, use_dict_cursor |-> FALSE, logger |-> "-"],
     connect |-> "-"]

Usable(d) == d.conn = "open" /\ d.cur = "open"

\* the faults the environment may inject into a call on this session
Faults(d) == IF Usable(d) THEN {"none", "stmt", "conn"} ELSE {"none"}

\* the model's bound on the table and on the open transaction
Fits(d, rows, stmts) ==
    /\ Len(Working(d)) + rows <= MaxRows
    /\ Len(d.pending) + stmts <= MaxPending

\* the caller is not inside a call
Ready == op = "-"

\* a step that runs the operation name with arguments a and result r
Do(name, a, r) ==
    \E x \in {r} :
        /\ op' = name
        /\ arg' = a
        /\ drv' = x.drv
        /\ trace' = x.trace
        /\ outcome' = x.outcome
        /\ ret' = x.ret
        /\ emChunks' = x.chunks
        /\ released' = [cursor |-> released.cursor + x.relCursor,
                        connection |-> released.connection + x.relConnection]
        /\ UNCHANGED <<self, attempts>>

Outside == UNCHANGED <<ctx, blockExc, bodyExc, exitCloses>>

NoClose == UNCHANGED closeCalls

\* the statement's effect, the fault and what fetchall() does: a statement
\* that fails has no effect, and fetchall() is only reached after a success
SelectCases ==
    ({NoMut, Ins(1)} \X {"none"} \X {"row", "noresult"})
        \cup ({NoMut} \X (Faults(drv) \ {"none"}) \X {"row"})

DoSelect ==
    /\ Ready
    /\ \E q \in Queries, c \in SelectCases :
        /\ Fits(drv, Grows(c[1]), Grows(c[1]))
        /\ Do("select_execute_query",
              [NoArg EXCEPT !.query = q, !.m = c[1], !.fault = c[2], !.fetch = c[3]],
              SelectExecuteQuery(self, drv, q, c[1], c[2], c[3]))
        /\ flushed' = 0
        /\ Outside
        /\ NoClose

CountCases ==
    ({"none"} \X {"row", "none", "nokey", "noresult"})
        \cup ((Faults(drv) \ {"none"}) \X {"row"})

DoCount ==
    /\ Ready
    /\ \E c \in CountCases :
        /\ Do("select_get_count_query", [NoArg EXCEPT !.fault = c[1], !.fetch = c[2]],
              SelectGetCountQuery(self, drv, NoMut, c[1], c[2]))
        /\ flushed' = 0
        /\ Outside
        /\ NoClose

DoInsert ==
    /\ Ready
    /\ \E v \in Values, f \in Faults(drv) :
        /\ Fits(drv, 1, 1)
        /\ Do("insert", [NoArg EXCEPT !.m = Ins(v), !.fault = f], Mutate(drv, Ins(v), f))
        /\ flushed' = 0
        /\ Outside
        /\ NoClose

DoUpdate ==
    /\ Ready
    /\ \E v \in Values, f \in Faults(drv) :
        /\ Fits(drv, 0, 1)
        /\ Do("update_execute_query", [NoArg EXCEPT !.m = [k |-> "upd", v |-> v], !.fault = f],
              Mutate(drv, [k |-> "upd", v |-> v], f))
        /\ flushed' = 0
        /\ Outside
        /\ NoClose

DoDelete ==
    /\ Ready
    /\ \E v \in Values, f \in Faults(drv) :
        /\ Fits(drv, 0, 1)
        /\ Do("delete_execute_query", [NoArg EXCEPT !.m = [k |-> "del", v |-> v], !.fault = f],
              Mutate(drv, [k |-> "del", v |-> v], f))
        /\ flushed' = 0
        /\ Outside
        /\ NoClose

\* the row lists bulk_insert is called with
\* (rows alternate between the two values, so that any reordering shows)
DataLists ==
    { [i \in 1..n |-> IF i % 2 = 1 THEN v ELSE 3 - v] : n \in 0..MaxData, v \in Values }
\* the chunk sizes: any integer, here from -1 to one more than the longest list
ChunkSizes == -1..(MaxData + 1)

DoBulkInsert ==
    /\ Ready
    /\ \E data \in DataLists, k \in ChunkSizes, f \in Faults(drv) :
      \E failAt \in (IF f = "none" THEN {0} ELSE 1..Len(data)) :
        /\ Fits(drv, Len(data), Len(data))
        /\ Do("bulk_insert",
              [NoArg EXCEPT !.data = data, !.chunk_size = k, !.fault = f, !.failAt = failAt],
              BulkInsert(drv, data, k, failAt, f))
        /\ flushed' = 0
        /\ Outside
        /\ NoClose

DoCommit ==
    /\ Ready
    /\ \E f \in Faults(drv) :
        /\ Do("commit", [NoArg EXCEPT !.fault = f], Commit(drv, f))
        /\ flushed' = Len(drv.pending)
        /\ Outside
        /\ NoClose

DoRollback ==
    /\ Ready
    /\ \E f \in Faults(drv) \ {"stmt"} :
        /\ Do("rollback", [NoArg EXCEPT !.fault = f], Rollback(drv, f))
        /\ flushed' = Len(drv.pending)
        /\ Outside
        /\ NoClose

DoClose ==
    /\ Ready
    /\ closeCalls < MaxCloses
    /\ Do("close", NoArg, Close(self, drv))
    /\ closeCalls' = closeCalls + 1
    /\ flushed' = 0
    /\ Outside

\* with helper: ... enters the body
DoEnter ==
    /\ ctx = "none"
    /\ ctx' = "in"
    /\ op' = "__enter__"
    /\ arg' = NoArg
    /\ trace' = <<>>
    /\ outcome' = "ok"
    /\ ret' = [kind |-> "self", shape |-> "-", rows |-> <<>>, n |-> 0]
    /\ emChunks' = <<>>
    /\ flushed' = 0
    /\ UNCHANGED <<self, drv, released, blockExc, bodyExc, exitCloses, closeCalls, attempts>>

\* how the body may end at this point: normally, by an exception of its own
\* code, or by the exception of the operation that has just raised
BodyEnds ==
    IF op # "-" /\ outcome # "ok" THEN {outcome} ELSE {"none", "BodyError"}

\* the body ends, normally or by raising e, and __exit__ runs
DoExit ==
    \E e \in BodyEnds :
        \E x \in {Exit(self, drv, e)} :
            /\ ctx = "in"
            /\ ctx' = "exited"
            /\ op' = "__exit__"
            /\ arg' = NoArg
            /\ drv' = x.r.drv
            /\ trace' = x.r.trace
            /\ outcome' = x.exc
            /\ ret' = RetNone
            /\ emChunks' = <<>>
            /\ released' = [cursor |-> released.cursor + x.r.relCursor,
                            connection |-> released.connection + x.r.relConnection]
            /\ flushed' = 0
            /\ bodyExc' = e
            /\ blockExc' = x.exc
            /\ exitCloses' = exitCloses + x.calls
            /\ closeCalls' = closeCalls + x.calls
            /\ UNCHANGED <<self, attempts>>

\* the caller has taken the result of the last call (its return value or its
\* exception) and is ready to make the next one
DoReturn ==
    /\ op # "-"
    /\ op' = "-"
    /\ arg' = NoArg
    /\ trace' = <<>>
    /\ outcome' = "ok"
    /\ ret' = RetNone
    /\ emChunks' = <<>>
    /\ flushed' = 0
    /\ UNCHANGED <<self, drv, released, ctx, blockExc, bodyExc, exitCloses, closeCalls,
                   attempts>>

\* an instance in the state lines 67-80 leave after a successful connect
Init ==
    \E a \in [autocommit : BOOLEAN, use_dict_cursor : BOOLEAN, logger : {"None"}],
       table \in {<<>>} :
        LET r == TryConnect(Blank, a, "ok", table)
        IN  /\ self = r.self
            /\ drv = r.drv
            /\ op = "__init__"
            /\ arg = [NoArg EXCEPT !.ctor = a, !.connect = "ok"]
            /\ trace = r.trace
            /\ outcome = r.outcome
            /\ ret = RetNone
            /\ emChunks = <<>>
            /\ released = [cursor |-> 0, connection |-> 0]
            /\ flushed = 0
            /\ ctx = "none"
            /\ blockExc = "none"
            /\ bodyExc = "none"
            /\ exitCloses = 0
            /\ closeCalls = 0
            /\ attempts = 0

\* the operations a caller may run on the instance
Next ==
    \/ DoSelect
    \/ DoCount
    \/ DoInsert
    \/ DoUpdate
    \/ DoDelete
    \/ DoBulkInsert
    \/ DoCommit
    \/ DoRollback
    \/ DoClose
    \/ DoReturn

Spec == Init /\ [][Next]_vars

(* with PostgresHelper(...) as db: the body runs operations on db, then *)
(* __exit__ runs and the program leaves the block                      *)

DoBody == ctx = "in" /\ Next

NextWith ==
    \/ DoEnter
    \/ DoBody
    \/ DoExit

SpecWith == Init /\ [][NextWith]_vars


(* The constructor, called again and again by a caller that has no instance *)

InitNew ==
    /\ self = Blank
    /\ drv = NoSession
    /\ op = "start"
    /\ arg = NoArg
    /\ trace = <<>>
    /\ outcome = "ok"
    /\ ret = RetNone
    /\ emChunks = <<>>
    /\ released = [cursor |-> 0, connection |-> 0]
    /\ flushed = 0
    /\ ctx = "none"
    /\ blockExc = "none"
    /\ bodyExc = "none"
    /\ exitCloses = 0
    /\ closeCalls = 0
    /\ attempts = 0

DoNew ==
    \E a \in CtorArgs, connect \in ConnectOutcomes :
        LET r == New(a, connect, <<>>)
        IN  /\ attempts < MaxAttempts
            /\ attempts' = attempts + 1
            /\ self' = r.self
            /\ drv' = r.drv
            /\ op' = "__init__"
            /\ arg' = [NoArg EXCEPT !.ctor = a, !.connect = connect]
            /\ trace' = r.trace
            /\ outcome' = r.outcome
            /\ UNCHANGED <<ret, emChunks, released, flushed, ctx, blockExc, bodyExc,
                           exitCloses, closeCalls>>

NextNew == DoNew

SpecNew == InitNew /\ [][NextNew]_vars

----------------------------------------------------------------------------
(* The claims *)

Has(tr, e) == \E i \in 1..Len(tr) : tr[i] = e
Count(tr, e) == Cardinality({i \in 1..Len(tr) : tr[i] = e})
EndsWith(tr, suffix) ==
    Len(tr) >= Len(suffix) /\ SubSeq(tr, Len(tr) - Len(suffix) + 1, Len(tr)) = suffix

RECURSIVE Flatten(_)
Flatten(ss) == IF ss = <<>> THEN <<>> ELSE Head(ss) \o Flatten(Tail(ss))

\* C1: a construction whose connect call succeeds completes without raising,
\* logs the success message and leaves the instance Open: connection and
\* cursor are set and the connection's autocommit flag is the argument.
C1_ConstructionSucceeds ==
    (op = "__init__" /\ arg.connect = "ok")
        => /\ outcome = "ok"
           /\ Has(trace, "log_info")
           /\ self.connection # "None"
           /\ self.cursor # "None"
           /\ drv.conn = "open"
           /\ drv.autocommit = arg.ctor.autocommit

\* C2: a construction whose connect call fails logs the cause, then raises
\* PostgresDbConnectionError, and holds no connection and no cursor; no
\* construction raises any other kind of exception.
C2_ConnectFailureRaisesConnectionError ==
    /\ (op = "__init__" /\ arg.connect # "ok")
           => /\ outcome = CE
              /\ EndsWith(trace, <<"log_error", RaiseCE>>)
              /\ self.connection = "None"
              /\ self.cursor = "None"
    /\ op = "__init__" => outcome \in {"ok", CE}

MutatingOps == {"insert", "update_execute_query", "delete_execute_query"}

\* what a successful step of a mutating operation, of commit() and of
\* rollback() does to the committed rows and to the pending statements
C3_Step ==
    /\ (op' \in MutatingOps /\ outcome' = "ok")
           => /\ Has(trace', "commit") <=> drv.autocommit
              /\ IF drv.autocommit
                 THEN /\ drv'.committed = Apply(arg'.m, drv.committed)
                      /\ drv'.pending = <<>>
                 ELSE /\ drv'.committed = drv.committed
                      /\ drv'.pending = Append(drv.pending, arg'.m)
    /\ (op' = "commit" /\ outcome' = "ok" /\ ~drv.autocommit)
           => /\ drv'.committed = ApplyAll(drv.committed, drv.pending)
              /\ drv'.pending = <<>>
    /\ (op' = "rollback" /\ outcome' = "ok" /\ ~drv.autocommit)
           => /\ drv'.committed = drv.committed
              /\ drv'.pending = <<>>

\* C3: a successful insert, update or delete is committed by the operation
\* itself exactly when autocommit is enabled.  With autocommit disabled the
\* effects of successful mutating operations stay pending, in order, and leave
\* the committed rows alone; commit() makes all of them the committed rows, and
\* rollback() discards all of them and leaves the committed rows as they were.
C3_CommitIffAutocommit ==
    /\ [](drv.autocommit => drv.pending = <<>>)
    /\ [][C3_Step]_vars

\* C3's case: with autocommit disabled, a commit() has just made two or more
\* pending statements the committed rows
C3_Witness ==
    /\ op = "commit"
    /\ outcome = "ok"
    /\ ~drv.autocommit
    /\ flushed >= 2
    /\ drv.committed # <<>>

StatementOps ==
    MutatingOps \cup {"select_execute_query", "select_get_count_query"}

\* C4: when the statement of a query or mutating operation fails on an Open
\* instance, the operation logs the error, rolls the transaction back and
\* raises PostgresDbQueryExecutionError, in this order and without a commit,
\* and no uncommitted statement stays pending afterwards.
C4_FailureLogsRollsBackRaises ==
    [][(op' \in StatementOps /\ Usable(drv) /\ arg'.fault # "none")
           => /\ EndsWith(trace', <<"log_error", "rollback", RaiseQEE>>)
              /\ ~Has(trace', "commit")
              /\ outcome' = QEE
              /\ drv'.pending = <<>>]_vars

\* C5: every failure of a public operation is logged and reaches the caller
\* as PostgresDbConnectionError or PostgresDbQueryExecutionError, also when
\* the rollback of an error path fails; no other kind of exception escapes.
C5_OnlyTheTwoErrorKinds ==
    /\ outcome \in {"ok", QEE, CE}
    /\ outcome # "ok" => Has(trace, "log_error")

\* what a bulk_insert whose driver calls all succeed does with its rows
BulkApplied ==
    /\ outcome' = "ok"
    /\ Flatten(emChunks') = arg'.data
    /\ \A i \in 1..Len(emChunks') : Len(emChunks'[i]) <= arg'.chunk_size
    /\ Working(drv') = Working(drv) \o arg'.data
    /\ Len(Working(drv')) = Len(Working(drv)) + Len(arg'.data)

\* C6 as stated: for every list of M rows and every chunk size K, a
\* bulk_insert whose driver calls all succeed hands executemany chunks of at
\* most K rows whose concatenation is the list, so the row count grows by M.
C6_AnyChunkSize ==
    [][(op' = "bulk_insert" /\ Usable(drv) /\ arg'.fault = "none") => BulkApplied]_vars

\* C6 as amended: the same for every chunk size K >= 1.
C6_PositiveChunkSize ==
    [][(op' = "bulk_insert" /\ Usable(drv) /\ arg'.fault = "none" /\ arg'.chunk_size >= 1)
           => BulkApplied]_vars

\* C6's case: a successful bulk_insert of two rows in two chunks
C6_Witness ==
    /\ op = "bulk_insert"
    /\ outcome = "ok"
    /\ arg.chunk_size = 1
    /\ arg.data = <<2, 1>>
    /\ emChunks = << <<2>>, <<1>> >>

\* C7: bulk_insert commits at most once, after the last chunk and only with
\* autocommit enabled; when a chunk fails it commits nothing, logs, rolls back
\* and raises PostgresDbQueryExecutionError, and no row of the call is
\* committed or pending afterwards, in both autocommit modes.  (Stated for
\* the failures that leave the connection usable.)
C7_BulkAllOrNothing ==
    [][(op' = "bulk_insert" /\ Usable(drv) /\ arg'.fault \in {"none", "stmt"})
           => /\ outcome' = "ok"
                   => /\ Count(trace', "commit") <= 1
                      /\ Has(trace', "commit") <=> drv.autocommit
                      /\ Has(trace', "commit") => trace'[Len(trace')] = "commit"
              /\ outcome' # "ok"
                   => /\ ~Has(trace', "commit")
                      /\ EndsWith(trace', <<"log_error", "rollback", RaiseQEE>>)
                      /\ drv'.committed = drv.committed
                      /\ drv'.pending = <<>>]_vars

\* C8: close() releases the cursor, then the connection, and logs; a second
\* or later close() does not fail, releases nothing again and leaves the
\* instance as it was: cursor and connection are each released exactly once.
C8_CloseIdempotent ==
    /\ [](/\ released.cursor <= 1
          /\ released.connection <= 1
          /\ op = "close"
                => /\ outcome = "ok"
                   /\ trace = <<"cursor_close", "connection_close", "log_info">>
                   /\ released = [cursor |-> 1, connection |-> 1]
                   /\ drv.cur = "closed"
                   /\ drv.conn = "closed")
    /\ [][(op' = "close" /\ closeCalls >= 1)
              => /\ outcome' = "ok"
                 /\ drv' = drv
                 /\ self' = self
                 /\ released' = released]_vars

\* C8's case: a second close() has returned
C8_Witness == op = "close" /\ closeCalls >= 2 /\ outcome = "ok"

\* C9: when the with block is left, on a normal end and on an exception of
\* the body alike, __exit__ has called close() exactly once, the instance is
\* Closed, and the block ends with the exception the body raised.
C9_ExitClosesOnce ==
    ctx = "exited"
        => /\ exitCloses = 1
           /\ drv.conn = "closed"
           /\ drv.cur = "closed"
           /\ blockExc = bodyExc

\* C9's case: the body was left by a PostgresDbQueryExecutionError of an operation
C9_Witness == ctx = "exited" /\ bodyExc = QEE /\ exitCloses = 1

\* the claim's test of a read query: leading whitespace removed, lower-cased,
\* begins with "select"
BeginsWithSelect(query) == StartsWith(Lower(LStrip(query)), KwSelect)

\* C10: a select_execute_query that succeeds returns all rows of the result
\* exactly when the statement begins with "select" (case and leading
\* whitespace ignored); otherwise it returns None and fetches nothing; it never
\* commits.
C10_RowsIffSelect ==
    op = "select_execute_query"
        => /\ ~Has(trace, "commit")
           /\ ~BeginsWithSelect(arg.query) => ~Has(trace, "fetchall")
           /\ outcome = "ok"
                => IF BeginsWithSelect(arg.query)
                   THEN /\ ret.kind = "rows"
                        /\ ret.rows = Working(drv)
                        /\ Has(trace, "fetchall")
                   ELSE ret = RetNone

\* C10's case: rows returned for a statement with leading whitespace and
\* mixed case
C10_Witness ==
    /\ op = "select_execute_query"
    /\ outcome = "ok"
    /\ arg.query = <<"\n", " ", "S", "e", "l", "E", "c", "t", " ", "x", " ">>
    /\ ret.kind = "rows"
    /\ ret.rows # <<>>

====
